---- MODULE Spec2Model ----
(***************************************************************************)
(* Verification model of the classifieds application:                      *)
(*   - the conversations/messages tables and the BEFORE INSERT trigger     *)
(*     set_message_conversation (supabase/migrations/..._little_limit.sql) *)
(*   - the messaging client (src/components/MessagingModal.tsx)            *)
(*   - the advertisements table and the create_advertisement RPC           *)
(*   - the users table, its row-level policies and the admin panel         *)
(* Ids (uuids) are modelled as positive integers under their total order;  *)
(* SQL NULL is the value NULL.                                             *)
(***************************************************************************)
EXTENDS Integers, Sequences, FiniteSets, TLC

\* ---------------------------------------------------------------- bounds
NUsers == 2
NAds == 1
MaxMsgs == 2
MaxAdRows == 2
MaxLogs == 1
MaxProfileWrites == 1
MaxDraft == 2

NULL == 0
Users == 1..NUsers
Ads == 1..NAds
AdOrNull == Ads \cup {NULL}

VARIABLES
  conversations,  \* table conversations: sequence of rows, row id = its index
  messages,       \* table messages: sequence of rows, in order of storing
  nextId,         \* next message id gen_random_uuid() hands out
  user,           \* useAuth().user.id of the messaging client session
  cache,          \* the client's `conversations` state: ids of fetched rows
  selected,       \* the client's `selectedConversation` state (NULL = null)
  txns,           \* message inserts in progress (trigger executions under way)
  marking         \* markMessagesAsRead between its two updates (NotMarking: not running)

msgVars == <<conversations, messages, nextId, user, cache, selected>>
stepVars == <<txns, marking>>

VARIABLES
  shown,          \* the client's `messages` state: ids of the displayed messages
  draft,          \* the client's `newMessage` state: the typed characters
  sending,        \* the client's `sending` state
  pending         \* the insert sendMessage awaits (NoRequest: none)

sendVars == <<shown, draft, sending, pending>>

VARIABLES
  advertisements, \* table advertisements: set of rows
  nextAdId,       \* next advertisement id gen_random_uuid() hands out
  adResult        \* outcome of the last create_advertisement call

adVars == <<advertisements, nextAdId, adResult>>

VARIABLES
  users,          \* table users: id -> [role, is_banned]
  panel,          \* AdminPanel session: useAuth().user and the users,
                  \* advertisements and logs states
  logs,           \* table admin_logs: sequence of rows
  profileWrites,  \* number of direct profile updates so far
  calls           \* requests and notifications of the last client operation

adminVars == <<users, panel, logs, profileWrites, calls>>

\* ------------------------------------------------- table conversations
\* A new row with the column defaults of CREATE TABLE conversations.
NewConversation(u1, u2, a) ==
  [user1_id |-> u1, user2_id |-> u2, advertisement_id |-> a,
   last_message_id |-> NULL, user1_unread_count |-> 0, user2_unread_count |-> 0]

ConvIds(convs) == 1..Len(convs)

\* CONSTRAINT conversations_last_message_id_fkey FOREIGN KEY (last_message_id)
\* REFERENCES messages(id): what the constraint requires of the two tables.
LastMessageFkey(convs, msgs) ==
  \A c \in DOMAIN convs :
    convs[c].last_message_id # NULL =>
      \E i \in DOMAIN msgs : msgs[i].id = convs[c].last_message_id

\* SQL `x = y` that evaluates to TRUE (NULL = anything is not TRUE).
SqlEq(x, y) == x # NULL /\ y # NULL /\ x = y

\* UNIQUE(user1_id, user2_id, advertisement_id): rows with a NULL column never
\* conflict.
UniqueViolation(convs, u1, u2, a) ==
  \E c \in ConvIds(convs) :
    /\ SqlEq(convs[c].user1_id, u1)
    /\ SqlEq(convs[c].user2_id, u2)
    /\ SqlEq(convs[c].advertisement_id, a)

\* ------------------------------------- trigger set_message_conversation
\* IF NEW.sender_id < NEW.receiver_id THEN user1 := sender ELSE user1 := receiver
TriggerUser1(s, r) == IF s < r THEN s ELSE r
TriggerUser2(s, r) == IF s < r THEN r ELSE s

\* (mutant) the WHERE clause with plain equality on advertisement_id.
LookupMatchesPlainEq(convs, u1, u2, a) ==
  { c \in ConvIds(convs) :
      /\ convs[c].user1_id = u1
      /\ convs[c].user2_id = u2
      /\ SqlEq(convs[c].advertisement_id, a) }

\* The WHERE clause of the trigger's SELECT.
LookupMatches(convs, u1, u2, a) ==
  { c \in ConvIds(convs) :
      /\ convs[c].user1_id = u1
      /\ convs[c].user2_id = u2
      /\ (SqlEq(convs[c].advertisement_id, a)
          \/ (convs[c].advertisement_id = NULL /\ a = NULL)) }

\* SELECT id INTO conv_id: one of the matching rows, NULL when there is none.
LookupResults(convs, u1, u2, a) ==
  IF LookupMatches(convs, u1, u2, a) = {} THEN {NULL}
  ELSE LookupMatches(convs, u1, u2, a)

\* (mutant) the UPDATE incrementing the sender's slot instead of the receiver's.
TriggerUpdateSenderSlot(convs, cid, mid, u1, u2, r) ==
  [convs EXCEPT ![cid] =
     [@ EXCEPT !.last_message_id = mid,
               !.user1_unread_count = IF u1 # r THEN @ + 1 ELSE @,
               !.user2_unread_count = IF u2 # r THEN @ + 1 ELSE @]]

\* UPDATE conversations SET last_message_id, unread counters WHERE id = conv_id
TriggerUpdate(convs, cid, mid, u1, u2, r) ==
  [convs EXCEPT ![cid] =
     [@ EXCEPT !.last_message_id = mid,
               !.user1_unread_count = IF u1 = r THEN @ + 1 ELSE @,
               !.user2_unread_count = IF u2 = r THEN @ + 1 ELSE @]]

\* (mutant) the trigger leaving the supplied conversation_id in place.
TriggerNewRowKeepsSupplied(mid, s, r, a, supplied, cid) ==
  [id |-> mid, sender_id |-> s, receiver_id |-> r,
   conversation_id |-> supplied, advertisement_id |-> a, is_read |-> FALSE]

\* The row the BEFORE INSERT trigger returns: conversation_id is overwritten
\* by conv_id whatever the client supplied; is_read takes its default.
TriggerNewRow(mid, s, r, a, supplied, cid) ==
  [id |-> mid, sender_id |-> s, receiver_id |-> r, conversation_id |-> cid,
   advertisement_id |-> a, is_read |-> FALSE]

\* One INSERT INTO messages executed alone (trigger and row store together).
\* `supplied` is the conversation_id column of the inserted row; the insert is
\* taken while fewer than `limit` messages are stored.
InsertMessageWithin(limit, s, r, a, supplied) ==
  /\ Len(messages) < limit
  /\ LET u1 == TriggerUser1(s, r)
         u2 == TriggerUser2(s, r)
     IN \E found \in LookupResults(conversations, u1, u2, a) :
          /\ found = NULL => ~UniqueViolation(conversations, u1, u2, a)
          /\ LET created == IF found = NULL
                            THEN Append(conversations, NewConversation(u1, u2, a))
                            ELSE conversations
                 cid == IF found = NULL THEN Len(conversations) + 1 ELSE found
             IN /\ conversations' = TriggerUpdate(created, cid, nextId, u1, u2, r)
                /\ messages' = Append(messages,
                                 TriggerNewRow(nextId, s, r, a, supplied, cid))
  /\ nextId' = nextId + 1

InsertMessage(s, r, a, supplied) ==
  InsertMessageWithin(MaxMsgs, s, r, a, supplied)

\* A message insert issued by some other session (any sender, any receiver).
OtherInsert ==
  /\ \E s \in Users, r \in Users, a \in AdOrNull,
        supplied \in {NULL} \cup ConvIds(conversations) :
       InsertMessage(s, r, a, supplied)
  /\ UNCHANGED <<user, cache, selected, stepVars>>

\* ------------------------------------------- client: MessagingModal.tsx
\* fetchConversations: the rows with user1_id = user or user2_id = user.
FetchedConversations(convs, u) ==
  { c \in ConvIds(convs) : convs[c].user1_id = u \/ convs[c].user2_id = u }

\* The first update without its receiver_id filter and without the update
\* policy of messages: every unread message of the conversation.
MarkAllMessagesRead(msgs, cid, u) ==
  [i \in DOMAIN msgs |->
     IF msgs[i].conversation_id = cid /\ msgs[i].is_read = FALSE
     THEN [msgs[i] EXCEPT !.is_read = TRUE]
     ELSE msgs[i]]

\* The first update of markMessagesAsRead:
\* update({is_read: true}).eq(conversation_id).eq(receiver_id, user).eq(is_read, false)
MarkMessagesRead(msgs, cid, u) ==
  [i \in DOMAIN msgs |->
     IF msgs[i].conversation_id = cid /\ msgs[i].receiver_id = u
        /\ msgs[i].is_read = FALSE
     THEN [msgs[i] EXCEPT !.is_read = TRUE]
     ELSE msgs[i]]

\* The second update of markMessagesAsRead: the counter of the slot chosen by
\* isUser1 is set to 0; the row-level policy lets only a participant update.
ResetUnreadCount(convs, cid, u) ==
  IF convs[cid].user1_id = u \/ convs[cid].user2_id = u
  THEN IF convs[cid].user1_id = u
       THEN [convs EXCEPT ![cid].user1_unread_count = 0]
       ELSE [convs EXCEPT ![cid].user2_unread_count = 0]
  ELSE convs

\* markMessagesAsRead(conversationId) run to completion with both updates
\* succeeding; the second update is issued only when the conversation is found
\* in the local list `known`.
MarkedConversations(convs, cid, u, known) ==
  IF cid \in known THEN ResetUnreadCount(convs, cid, u) ELSE convs

\* useEffect([selectedConversation]): runs when the selection changes to a
\* non-null id; fetchMessages changes no modelled state.
SelectedEffect(convs, msgs, cid, known) ==
  /\ messages' = MarkMessagesRead(msgs, cid, user)
  /\ conversations' = MarkedConversations(convs, cid, user, known)

\* The modal opens without a recipient: fetchConversations succeeds.
FetchConversations ==
  /\ cache' = FetchedConversations(conversations, user)
  /\ cache' # cache
  /\ UNCHANGED <<conversations, messages, nextId, user, selected, stepVars>>

\* A click on a row of the rendered conversation list.
SelectConversation ==
  \E c \in cache :
    /\ c # selected
    /\ selected' = c
    /\ SelectedEffect(conversations, messages, c, cache)
    /\ UNCHANGED <<nextId, user, cache, stepVars>>

\* conversations.find(...) of startConversation: rows of the local list whose
\* pair is (user, recipient), whatever their advertisement.
ExistingConv(convs, known, u, r) ==
  { c \in known : \/ (convs[c].user1_id = u /\ convs[c].user2_id = r)
                  \/ (convs[c].user2_id = u /\ convs[c].user1_id = r) }

\* startConversation(r, a) with the row c returned by find: c is selected and
\* the function returns; a is not read on this path.
StartExistingWith(r, a, c) ==
  /\ c \in ExistingConv(conversations, cache, user, r)
  /\ c # selected
  /\ selected' = c
  /\ SelectedEffect(conversations, messages, c, cache)
  /\ UNCHANGED <<nextId, user, cache, stepVars>>

\* startConversation(recipientId, advertisementId), the existing row selected.
StartExisting ==
  \E r \in Users, a \in AdOrNull :
    \E c \in ExistingConv(conversations, cache, user, r) :
      StartExistingWith(r, a, c)

\* startConversation(recipientId, advertisementId), no row found locally: the
\* greeting is inserted, the list is fetched again (fetchOk: whether that
\* fetch succeeds) and the new message's conversation is selected.
StartNewWith(r, a, fetchOk) ==
  /\ ExistingConv(conversations, cache, user, r) = {}
  /\ Len(messages) < MaxMsgs
  /\ LET u1 == TriggerUser1(user, r)
         u2 == TriggerUser2(user, r)
     IN \E found \in LookupResults(conversations, u1, u2, a) :
          LET created == IF found = NULL
                         THEN Append(conversations, NewConversation(u1, u2, a))
                         ELSE conversations
              cid == IF found = NULL THEN Len(conversations) + 1 ELSE found
              convs1 == TriggerUpdate(created, cid, nextId, u1, u2, r)
              msgs1 == Append(messages,
                         TriggerNewRow(nextId, user, r, a, NULL, cid))
              known == IF fetchOk THEN FetchedConversations(convs1, user)
                       ELSE cache
          IN /\ found = NULL => ~UniqueViolation(conversations, u1, u2, a)
             /\ nextId' = nextId + 1
             /\ cache' = known
             /\ selected' = cid
             /\ IF cid # selected
                THEN SelectedEffect(convs1, msgs1, cid, known)
                ELSE conversations' = convs1 /\ messages' = msgs1
             /\ UNCHANGED <<user, stepVars>>

\* The local list startConversation reads is the one of the render that ran
\* the open effect: the fetch started by the same open has not updated it.
StartNew ==
  \E r \in Users, a \in AdOrNull, fetchOk \in BOOLEAN :
    StartNewWith(r, a, fetchOk)

\* sendMessage(): the receiver and the advertisement come from the locally
\* cached row of the selected conversation, conversation_id is supplied; then
\* fetchConversations().
SendMessageWithin(limit) ==
  \E fetchOk \in BOOLEAN :
    /\ selected # NULL
    /\ selected \in cache
    /\ LET conv == conversations[selected]
           receiverId == IF conv.user1_id = user THEN conv.user2_id
                         ELSE conv.user1_id
       IN InsertMessageWithin(limit, user, receiverId, conv.advertisement_id,
                              selected)
    /\ cache' = IF fetchOk THEN FetchedConversations(conversations', user)
                ELSE cache
    /\ UNCHANGED <<user, selected, stepVars>>

SendMessage == SendMessageWithin(MaxMsgs)

\* sendMessage() after the inserts of the other sessions have completed.
SendAfterInserts ==
  /\ txns = {}
  /\ SendMessageWithin(MaxMsgs + 1)

\* ------------------------------ the same operations, statement by statement
\* A message insert begins: NEW.id is generated, the trigger orders the pair
\* and runs its SELECT; the insert of the conversation row is a later step.
BeginInsert ==
  \E s \in Users, r \in Users, a \in AdOrNull :
    /\ nextId <= MaxMsgs
    /\ \E found \in LookupResults(conversations, TriggerUser1(s, r),
                                  TriggerUser2(s, r), a) :
         txns' = txns \cup
           {[id |-> nextId, sender_id |-> s, receiver_id |-> r,
             advertisement_id |-> a, conv_id |-> found,
             pc |-> IF found = NULL THEN "create" ELSE "update"]}
    /\ nextId' = nextId + 1
    /\ UNCHANGED <<conversations, messages, user, cache, selected, marking>>

\* IF conv_id IS NULL THEN INSERT INTO conversations ... RETURNING id
TriggerCreate ==
  \E t \in txns :
    /\ t.pc = "create"
    /\ LET u1 == TriggerUser1(t.sender_id, t.receiver_id)
           u2 == TriggerUser2(t.sender_id, t.receiver_id)
       IN IF UniqueViolation(conversations, u1, u2, t.advertisement_id)
          THEN \* unique_violation: the message insert is rolled back
               /\ txns' = txns \ {t}
               /\ UNCHANGED conversations
          ELSE /\ conversations' = Append(conversations,
                                     NewConversation(u1, u2, t.advertisement_id))
               /\ txns' = (txns \ {t}) \cup
                    {[t EXCEPT !.conv_id = Len(conversations) + 1,
                               !.pc = "update"]}
    /\ UNCHANGED <<messages, nextId, user, cache, selected, marking>>

\* NEW.conversation_id := conv_id; UPDATE conversations ... WHERE id = conv_id
\* The update is applied as written; what conversations_last_message_id_fkey
\* says of the state it produces is LastMessageFkey (C19).
TriggerMetadata ==
  \E t \in txns :
    /\ t.pc = "update"
    /\ conversations' =
         TriggerUpdate(conversations, t.conv_id, t.id,
                       TriggerUser1(t.sender_id, t.receiver_id),
                       TriggerUser2(t.sender_id, t.receiver_id), t.receiver_id)
    /\ txns' = (txns \ {t}) \cup {[t EXCEPT !.pc = "store"]}
    /\ UNCHANGED <<messages, nextId, user, cache, selected, marking>>

\* RETURN NEW: the row is stored and the insert completes.
StoreMessage ==
  \E t \in txns :
    /\ t.pc = "store"
    /\ messages' = Append(messages,
                     TriggerNewRow(t.id, t.sender_id, t.receiver_id,
                                   t.advertisement_id, NULL, t.conv_id))
    /\ txns' = txns \ {t}
    /\ UNCHANGED <<conversations, nextId, user, cache, selected, marking>>

\* fetchConversations while inserts are under way.
FetchStep ==
  /\ cache' = FetchedConversations(conversations, user)
  /\ cache' # cache
  /\ UNCHANGED <<conversations, messages, nextId, user, selected, stepVars>>

NotMarking == [conversationId |-> NULL, found |-> FALSE]

\* A click on a conversation: markMessagesAsRead issues its first update
\* (ok: whether the update call succeeds; a failed call is not thrown).
MarkReadFirst ==
  \E c \in cache, ok \in BOOLEAN :
    /\ marking = NotMarking
    /\ c # selected
    /\ selected' = c
    /\ messages' = IF ok THEN MarkMessagesRead(messages, c, user) ELSE messages
    /\ marking' = [conversationId |-> c, found |-> c \in cache]
    /\ UNCHANGED <<conversations, nextId, user, cache, txns>>

\* markMessagesAsRead issues its second update and returns.
MarkReadSecond ==
  \E ok \in BOOLEAN :
    /\ marking # NotMarking
    /\ conversations' =
         IF ok /\ marking.found
         THEN ResetUnreadCount(conversations, marking.conversationId, user)
         ELSE conversations
    /\ marking' = NotMarking
    /\ UNCHANGED <<messages, nextId, user, cache, selected, txns>>

\* ------------------------------------------------ table advertisements
\* SQL NULL of a text column; '' is the empty string, a non-null value.
NullText == "NULL"
ContactValues == {NullText, "", "@seller"}

\* (mutant) the table without its contact constraint.
CheckNoConstraint(row) == TRUE

\* CONSTRAINT check_at_least_one_contact CHECK
\*   (discord_contact IS NOT NULL OR telegram_contact IS NOT NULL)
CheckAtLeastOneContact(row) ==
  row.discord_contact # NullText \/ row.telegram_contact # NullText

AdRow(id, owner, discord, telegram, vip) ==
  [id |-> id, user_id |-> owner, discord_contact |-> discord,
   telegram_contact |-> telegram, is_vip |-> vip]

\* IF p_discord IS NULL AND p_telegram IS NULL THEN RAISE EXCEPTION
RpcRejects(p_discord, p_telegram) ==
  p_discord = NullText /\ p_telegram = NullText

\* create_advertisement(p_user_id, ..., p_discord, p_telegram, p_is_vip, ...):
\* the validation, then the INSERT under the table constraint. adResult is what
\* the caller gets back: an error, or the stored row's id.
CreateAdvertisementCall(p_user_id, p_discord, p_telegram, p_is_vip) ==
  /\ nextAdId <= MaxAdRows
  /\ LET row == AdRow(nextAdId, p_user_id, p_discord, p_telegram, p_is_vip)
     IN IF RpcRejects(p_discord, p_telegram) \/ ~CheckAtLeastOneContact(row)
        THEN /\ adResult' = [error |-> TRUE, id |-> NULL]
             /\ UNCHANGED <<advertisements, nextAdId>>
        ELSE /\ advertisements' = advertisements \cup {row}
             /\ nextAdId' = nextAdId + 1
             /\ adResult' = [error |-> FALSE, id |-> nextAdId]

CreateAdvertisement ==
  \E p_user_id \in Users, p_discord \in ContactValues,
     p_telegram \in ContactValues, p_is_vip \in BOOLEAN :
    CreateAdvertisementCall(p_user_id, p_discord, p_telegram, p_is_vip)

\* INSERT INTO advertisements by an authenticated caller: the insert policy is
\* WITH CHECK (true); the table constraint decides.
InsertAdvertisement ==
  \E owner \in Users, discord \in ContactValues, telegram \in ContactValues :
    /\ nextAdId <= MaxAdRows
    /\ CheckAtLeastOneContact(AdRow(nextAdId, owner, discord, telegram, FALSE))
    /\ advertisements' = advertisements \cup
                           {AdRow(nextAdId, owner, discord, telegram, FALSE)}
    /\ nextAdId' = nextAdId + 1
    /\ UNCHANGED adResult

\* UPDATE advertisements SET discord_contact, telegram_contact by `caller`:
\* policy "Users can update own advertisements" (auth.uid() = user_id) selects
\* the rows, the table constraint is checked on the new row.
UpdateAdvertisement ==
  \E caller \in Users, row \in advertisements :
    /\ caller = row.user_id
    /\ \E discord \in ContactValues, telegram \in ContactValues :
       LET new == [row EXCEPT !.discord_contact = discord,
                              !.telegram_contact = telegram]
       IN /\ new # row
          /\ CheckAtLeastOneContact(new)
          /\ advertisements' = (advertisements \ {row}) \cup {new}
    /\ UNCHANGED <<nextAdId, adResult>>

AdInit ==
  /\ advertisements = {}
  /\ nextAdId = 1
  /\ adResult = [error |-> FALSE, id |-> NULL]

\* ----------------------------------------------- table users, AdminPanel
Roles == {"user", "vip", "moderator", "admin", "Legend"}

\* policy "Users can update own profile": USING and WITH CHECK
\* (auth.uid() = id); there is no other update policy on users.
UsersUpdatePolicy(caller, id) == caller = id

\* UPDATE users SET ... WHERE id = target, issued by `caller`: rows the policy
\* does not select are skipped without an error.
UpdateUsers(tbl, caller, target, updateData) ==
  IF UsersUpdatePolicy(caller, target)
  THEN [tbl EXCEPT ![target] =
          [role |-> IF "role" \in DOMAIN updateData
                    THEN updateData.role ELSE @.role,
           is_banned |-> IF "is_banned" \in DOMAIN updateData
                         THEN updateData.is_banned ELSE @.is_banned]]
  ELSE tbl

\* (mutant) a delete policy that selects every row for every caller.
AdsDeleteAnyRow(caller, row) == TRUE

\* policy "Users can delete own advertisements": USING (auth.uid() = user_id);
\* there is no other delete policy on advertisements.
AdsDeletePolicy(caller, row) == caller = row.user_id

\* policy "Users can update own advertisements": USING and WITH CHECK
\* (auth.uid() = user_id).
AdsUpdatePolicy(caller, row) == caller = row.user_id

\* DELETE FROM advertisements WHERE id = adId, issued by `caller`.
DeleteAdvertisements(tbl, caller, adId) ==
  { row \in tbl : ~(row.id = adId /\ AdsDeletePolicy(caller, row)) }

\* UPDATE advertisements SET is_vip = vip WHERE id = adId, issued by `caller`.
UpdateAdvertisementsVip(tbl, caller, adId, vip) ==
  { IF row.id = adId /\ AdsUpdatePolicy(caller, row)
    THEN [row EXCEPT !.is_vip = vip] ELSE row : row \in tbl }

\* (mutant) policies on admin_logs for every command.
AdminLogsAnyCommand(cmd) == TRUE

\* admin_logs has a SELECT and an INSERT policy (USING / WITH CHECK (true)) and
\* none for UPDATE or DELETE.
AdminLogsPolicy(cmd) == cmd \in {"SELECT", "INSERT"}

\* A row of admin_logs.
LogEntry(admin, action, target) ==
  [admin_id |-> admin, action |-> action, target_user_id |-> target]

\* INSERT, UPDATE (of row i to `entry`) or DELETE (of row i) on admin_logs by
\* an authenticated caller: a command without a policy touches no row.
WriteAdminLogs(tbl, cmd, i, entry) ==
  IF ~AdminLogsPolicy(cmd) THEN tbl
  ELSE IF cmd = "INSERT" THEN Append(tbl, entry)
  ELSE IF i \notin DOMAIN tbl THEN tbl
  ELSE IF cmd = "UPDATE" THEN [tbl EXCEPT ![i] = entry]
  ELSE SubSeq(tbl, 1, i - 1) \o SubSeq(tbl, i + 1, Len(tbl))

\* One request or notification of a client operation: op on `table` by uid
\* `actor`, about row `row` (a user id or an advertisement id), with what it
\* carries in `column` and `value`; ok: whether the call returned no error.
Event(op, table, actor, row, column, value, ok) ==
  [op |-> op, table |-> table, actor |-> actor, row |-> row,
   column |-> column, value |-> value, ok |-> ok]

Navigate == Event("navigate", "/", NULL, NULL, "", "", TRUE)
ToastSuccess == Event("toast.success", "", NULL, NULL, "", "", TRUE)
ToastError == Event("toast.error", "", NULL, NULL, "", "", TRUE)

\* hasPermission(user, ['admin', 'moderator'])
HasPermission(role, allowed) == role \in allowed

\* (mutant) an effect that fetches for every session.
EffectPermitsAll(p) == TRUE

\* useEffect: if (!user || !hasPermission(user, ['admin', 'moderator']))
\*   { navigate('/'); return; }
EffectPermitted(p) ==
  p.id # NULL /\ HasPermission(p.role, {"admin", "moderator"})

\* The panel renders its tabs only for a permitted session user; otherwise it
\* shows the access-denied page.
PanelRendered(p) ==
  p.id # NULL /\ HasPermission(p.role, {"admin", "moderator"})

\* (mutant) logs fetched for every session.
LogsFetchedAlways(p) == TRUE

\* fetchData: if (user?.role === 'admin') { ... from('admin_logs').select ... }
LogsFetched(p) == p.role = "admin"

\* setUsers(usersData || []) of fetchData(): the stored table, or the empty
\* list when the select returns no data.
FetchedUsers(tbl, fetchOk) == IF fetchOk THEN tbl ELSE <<>>

\* The selects fetchData() issues, in its order.
FetchCalls(p, fetchOk) ==
  <<Event("select", "users", p.id, NULL, "", "", fetchOk),
    Event("select", "advertisements", p.id, NULL, "", "", fetchOk)>>
  \o (IF LogsFetched(p)
      THEN <<Event("select", "admin_logs", p.id, NULL, "", "", fetchOk)>>
      ELSE <<>>)

\* The panel state after fetchData(): setLogs (admin only), setUsers,
\* setAdvertisements, each with the data or with [] (fetchOk: whether the
\* selects return data). The stored logs are fewer than the limit of 50.
FetchData(p, usersTbl, adsTbl, logsTbl, fetchOk) ==
  [p EXCEPT !.users = FetchedUsers(usersTbl, fetchOk),
            !.advertisements = IF fetchOk THEN adsTbl ELSE {},
            !.logs = IF LogsFetched(p)
                     THEN (IF fetchOk THEN logsTbl ELSE <<>>)
                     ELSE @]

\* The panel mounts: the permission check, then fetchData().
MountEffect ==
  \E fetchOk \in BOOLEAN :
    /\ IF EffectPermitted(panel)
       THEN /\ panel' = FetchData(panel, users, advertisements, logs, fetchOk)
            /\ calls' = FetchCalls(panel, fetchOk)
       ELSE /\ calls' = <<Navigate>>
            /\ UNCHANGED panel
    /\ <<panel', calls'>> # <<panel, calls>>
    /\ UNCHANGED <<users, logs, profileWrites>>

\* updateData of handleUserAction(targetUserId, action, newRole)
UpdateData(action, newRole) ==
  IF action = "ban" THEN [is_banned |-> TRUE]
  ELSE IF action = "unban" THEN [is_banned |-> FALSE]
  ELSE [role |-> newRole]

\* The buttons the panel renders in the row of `target` of its local list.
\* (mutant) role buttons without the test of the session user's role.
RoleButtonShownToAll(p, target, newRole) ==
  /\ PanelRendered(p)
  /\ target \in DOMAIN p.users
  /\ p.users[target].role # "admin"
  /\ p.users[target].role # newRole

RoleButtonShown(p, target, newRole) ==
  /\ PanelRendered(p)
  /\ target \in DOMAIN p.users
  /\ p.role = "admin"
  /\ p.users[target].role # "admin"
  /\ p.users[target].role # newRole

BanButtonShown(p, target) ==
  /\ PanelRendered(p)
  /\ target \in DOMAIN p.users
  /\ p.users[target].role # "admin"

\* The Crown and Trash buttons in the row of a locally listed advertisement.
AdButtonsShown(p, ad) ==
  /\ PanelRendered(p)
  /\ ad \in p.advertisements

\* (mutant) a handler that goes on when the mutation returns an error.
ErrorIgnored(mutOk) == FALSE

\* if (error) throw error;
ErrorThrown(mutOk) == ~mutOk

\* (mutant) logAction passing its failure on to the caller.
LogActionRethrows(tbl, entry, logOk) ==
  [logs |-> IF logOk THEN WriteAdminLogs(tbl, "INSERT", NULL, entry) ELSE tbl,
   calls |-> <<Event("insert", "admin_logs", entry.admin_id,
                     entry.target_user_id, "action", entry.action, logOk)>>,
   thrown |-> ~logOk]

\* logAction(action, targetUserId, details): one insert into admin_logs
\* (logOk: whether it succeeds); a failure is caught and printed, never thrown.
LogAction(tbl, entry, logOk) ==
  [logs |-> IF logOk THEN WriteAdminLogs(tbl, "INSERT", NULL, entry) ELSE tbl,
   calls |-> <<Event("insert", "admin_logs", entry.admin_id,
                     entry.target_user_id, "action", entry.action, logOk)>>,
   thrown |-> FALSE]

\* What follows the mutation call of a handler in its try block: the throw on
\* an error, else logAction, the success toast and fetchData(); any throw ends
\* in the catch block's error toast. usersNow, adsNow: the tables after the
\* mutation.
AfterMutation(mutation, entry, usersNow, adsNow, logOk, fetchOk) ==
  LET la == LogAction(logs, entry, logOk)
  IN /\ Len(logs) < MaxLogs
     /\ IF ErrorThrown(mutation.ok)
        THEN /\ calls' = <<mutation, ToastError>>
             /\ UNCHANGED <<logs, panel>>
        ELSE /\ logs' = la.logs
             /\ IF la.thrown
                THEN /\ calls' = <<mutation>> \o la.calls \o <<ToastError>>
                     /\ UNCHANGED panel
                ELSE /\ calls' = <<mutation>> \o la.calls \o <<ToastSuccess>>
                                 \o FetchCalls(panel, fetchOk)
                     /\ panel' = FetchData(panel, usersNow, adsNow, la.logs,
                                           fetchOk)
     /\ UNCHANGED profileWrites

\* handleUserAction: the update (mutOk: whether it returns no error), then
\* logAction, the toast and fetchData.
HandleUserAction(target, action, newRole, mutOk, logOk, fetchOk) ==
  LET updateData == UpdateData(action, newRole)
      mutation == Event("update", "users", panel.id, target,
                        IF "role" \in DOMAIN updateData
                        THEN "role" ELSE "is_banned",
                        IF "role" \in DOMAIN updateData
                        THEN updateData.role ELSE action, mutOk)
      entry == LogEntry(panel.id,
                        IF newRole # "" THEN action \o "_to_" \o newRole
                        ELSE action,
                        target)
  IN /\ users' = IF mutOk
                 THEN UpdateUsers(users, panel.id, target, updateData)
                 ELSE users
     /\ AfterMutation(mutation, entry, users', advertisements, logOk, fetchOk)

\* handleDeleteAd(adId), the confirm() dialog accepted: adToDelete is the row
\* of the local list.
HandleDeleteAd(adToDelete, mutOk, logOk, fetchOk) ==
  LET mutation == Event("delete", "advertisements", panel.id, adToDelete.id,
                        "", "", mutOk)
      entry == LogEntry(panel.id, "delete_advertisement", adToDelete.user_id)
  IN /\ advertisements' =
          IF mutOk
          THEN DeleteAdvertisements(advertisements, panel.id, adToDelete.id)
          ELSE advertisements
     /\ UNCHANGED users
     /\ AfterMutation(mutation, entry, users, advertisements', logOk, fetchOk)

\* handlePromoteAd(adId, isVip): adToPromote is the row of the local list and
\* isVip its is_vip.
HandlePromoteAd(adToPromote, mutOk, logOk, fetchOk) ==
  LET isVip == adToPromote.is_vip
      mutation == Event("update", "advertisements", panel.id, adToPromote.id,
                        "is_vip", IF isVip THEN "false" ELSE "true", mutOk)
      entry == LogEntry(panel.id,
                        IF isVip THEN "demote_advertisement"
                        ELSE "promote_advertisement",
                        adToPromote.user_id)
  IN /\ advertisements' =
          IF mutOk
          THEN UpdateAdvertisementsVip(advertisements, panel.id,
                                       adToPromote.id, ~isVip)
          ELSE advertisements
     /\ UNCHANGED users
     /\ AfterMutation(mutation, entry, users, advertisements', logOk, fetchOk)

\* A click on Crown (vip) or Shield (moderator) in a user row.
ClickRole ==
  \E target \in Users, newRole \in {"vip", "moderator"},
     mutOk \in BOOLEAN, logOk \in BOOLEAN, fetchOk \in BOOLEAN :
    /\ RoleButtonShown(panel, target, newRole)
    /\ HandleUserAction(target, "role", newRole, mutOk, logOk, fetchOk)

\* A click on Ban in a user row: unban when the row shows the user banned.
ClickBan ==
  \E target \in Users,
     mutOk \in BOOLEAN, logOk \in BOOLEAN, fetchOk \in BOOLEAN :
    /\ BanButtonShown(panel, target)
    /\ HandleUserAction(target,
         IF panel.users[target].is_banned THEN "unban" ELSE "ban",
         "", mutOk, logOk, fetchOk)

\* A click on Trash in an advertisement row, confirmed.
ClickDeleteAd ==
  \E ad \in panel.advertisements,
     mutOk \in BOOLEAN, logOk \in BOOLEAN, fetchOk \in BOOLEAN :
    /\ AdButtonsShown(panel, ad)
    /\ HandleDeleteAd(ad, mutOk, logOk, fetchOk)

\* A click on Crown in an advertisement row.
ClickPromoteAd ==
  \E ad \in panel.advertisements,
     mutOk \in BOOLEAN, logOk \in BOOLEAN, fetchOk \in BOOLEAN :
    /\ AdButtonsShown(panel, ad)
    /\ HandlePromoteAd(ad, mutOk, logOk, fetchOk)

\* A user's update of their own users row, which the update policy permits for
\* every column: here of the role or of the ban flag.
UpdateOwnProfileBy(u) ==
  /\ profileWrites < MaxProfileWrites
  /\ \/ \E role \in Roles : users' = UpdateUsers(users, u, u, [role |-> role])
     \/ users' = UpdateUsers(users, u, u, [is_banned |-> ~users[u].is_banned])
  /\ users' # users
  /\ profileWrites' = profileWrites + 1
  /\ UNCHANGED <<panel, logs, calls>>

UpdateOwnProfile == \E u \in Users : UpdateOwnProfileBy(u)

\* DELETE FROM advertisements WHERE id = ... issued by any authenticated user
\* outside the panel.
DeleteAdvertisement ==
  \E caller \in Users, row \in advertisements :
    /\ advertisements' = DeleteAdvertisements(advertisements, caller, row.id)
    /\ calls' = <<Event("delete", "advertisements", caller, row.id, "", "",
                        TRUE)>>
    /\ UNCHANGED <<users, panel, logs, profileWrites>>

\* INSERT, UPDATE or DELETE on admin_logs issued by any authenticated user
\* outside the panel.
WriteLogs ==
  \E caller \in Users, cmd \in {"INSERT", "UPDATE", "DELETE"},
     i \in 1..MaxLogs :
    /\ cmd = "INSERT" => Len(logs) < MaxLogs /\ i = 1
    /\ cmd # "INSERT" => i \in DOMAIN logs
    /\ logs' = WriteAdminLogs(logs, cmd, i, LogEntry(caller, "ban", caller))
    /\ calls' = <<Event(IF cmd = "INSERT" THEN "insert"
                        ELSE IF cmd = "UPDATE" THEN "update" ELSE "delete",
                        "admin_logs", caller, i, "", "", TRUE)>>
    /\ UNCHANGED <<users, panel, profileWrites>>

\* The session of useAuth().user = u with the panel's lists not fetched yet
\* (useState([])); u = NULL: no user is signed in.
PanelSession(u, role) ==
  [id |-> u, role |-> role, users |-> <<>>, advertisements |-> {},
   logs |-> <<>>]

\* The stored advertisement of id i: of user 1, 2, ... in turn.
StoredAd(i) == AdRow(i, ((i - 1) % NUsers) + 1, "@seller", NullText, FALSE)

\* The stored advertisements the panel session finds.
PanelAdInit ==
  /\ advertisements = { StoredAd(i) : i \in Ads }
  /\ nextAdId = NAds + 1
  /\ adResult = [error |-> FALSE, id |-> NULL]

\* The stored users, and a panel session of one of them.
AdminInit ==
  /\ users \in [Users -> [role : Roles, is_banned : {FALSE}]]
  /\ \E u \in Users : panel = PanelSession(u, users[u].role)
  /\ logs = <<>>
  /\ profileWrites = 0
  /\ calls = <<>>

\* Users of role 'user' but for one of any role, and a panel session of that
\* one or of nobody.
PanelInit ==
  /\ \E u \in Users, role \in Roles :
       /\ users = [t \in Users |->
                    [role |-> IF t = u THEN role ELSE "user",
                     is_banned |-> FALSE]]
       /\ panel \in {PanelSession(u, role), PanelSession(NULL, "")}
  /\ logs = <<>>
  /\ profileWrites = 0
  /\ calls = <<>>

AdminIdle ==
  /\ users = [u \in Users |-> [role |-> "user", is_banned |-> FALSE]]
  /\ panel = PanelSession(1, "user")
  /\ logs = <<>>
  /\ profileWrites = 0
  /\ calls = <<>>

\* ------------------------------------------- row-level policies of messages
\* policy "users_can_view_their_messages": USING (uid() = sender_id OR
\* uid() = receiver_id)
MessagesSelectPolicy(caller, row) ==
  caller = row.sender_id \/ caller = row.receiver_id

\* policy "users_can_insert_their_messages": WITH CHECK (uid() = sender_id)
MessagesInsertPolicy(caller, row) == caller = row.sender_id

\* (mutant) an update policy that selects every row for every caller.
MessagesUpdateAnyRow(caller, row) == TRUE

\* policy "users_can_update_their_messages": USING (uid() = receiver_id)
MessagesUpdatePolicy(caller, row) == caller = row.receiver_id

\* policy "users_can_delete_their_messages": USING (uid() = sender_id OR
\* uid() = receiver_id)
MessagesDeletePolicy(caller, row) ==
  caller = row.sender_id \/ caller = row.receiver_id

\* SELECT * FROM messages issued by `caller`: the rows the policy shows.
SelectMessages(msgs, caller) ==
  { i \in DOMAIN msgs : MessagesSelectPolicy(caller, msgs[i]) }

\* UPDATE messages SET is_read = flag WHERE id = msgs[i].id, by `caller`.
UpdateMessages(msgs, caller, i, flag) ==
  IF MessagesUpdatePolicy(caller, msgs[i])
  THEN [msgs EXCEPT ![i].is_read = flag]
  ELSE msgs

\* DELETE FROM messages WHERE id = msgs[i].id, by `caller`.
DeleteMessages(msgs, caller, i) ==
  IF MessagesDeletePolicy(caller, msgs[i])
  THEN SubSeq(msgs, 1, i - 1) \o SubSeq(msgs, i + 1, Len(msgs))
  ELSE msgs

\* INSERT INTO messages (sender_id, receiver_id, content), scoped to no
\* advertisement, issued by `caller`: a row the policy rejects is an error.
InsertMessageAs ==
  \E caller \in Users, s \in Users, r \in Users, a \in {NULL} :
    /\ nextId <= MaxMsgs
    /\ IF MessagesInsertPolicy(caller,
            TriggerNewRow(nextId, s, r, a, NULL, NULL))
       THEN /\ InsertMessage(s, r, a, NULL)
            /\ calls' = <<Event("insert", "messages", caller, nextId,
                                "", "", TRUE)>>
       ELSE /\ calls' = <<Event("insert", "messages", caller, nextId,
                                "", "", FALSE)>>
            /\ UNCHANGED <<conversations, messages, nextId>>
    /\ UNCHANGED <<user, cache, selected, stepVars>>

\* An update of the read flag of a stored message issued by `caller`.
UpdateMessageAs ==
  \E caller \in Users, i \in DOMAIN messages, flag \in BOOLEAN :
    /\ messages' = UpdateMessages(messages, caller, i, flag)
    /\ calls' = <<Event("update", "messages", caller, messages[i].id,
                        "is_read", IF flag THEN "true" ELSE "false", TRUE)>>
    /\ UNCHANGED <<conversations, nextId, user, cache, selected, stepVars>>

\* A delete of a stored message issued by `caller`; a message that a
\* conversation names as its last message cannot be deleted
\* (conversations_last_message_id_fkey).
DeleteMessageAs ==
  \E caller \in Users, i \in DOMAIN messages :
    LET after == DeleteMessages(messages, caller, i)
    IN /\ IF LastMessageFkey(conversations, after)
          THEN /\ messages' = after
               /\ calls' = <<Event("delete", "messages", caller,
                                   messages[i].id, "", "", TRUE)>>
          ELSE /\ messages' = messages
               /\ calls' = <<Event("delete", "messages", caller,
                                   messages[i].id, "", "", FALSE)>>
       /\ UNCHANGED <<conversations, nextId, user, cache, selected, stepVars>>

\* --------------------------------------- sendMessage, request and response
\* The characters a draft is typed from, and the drafts of bounded length.
Chars == {" ", "a"}
Drafts == UNION { [1..n -> Chars] : n \in 0..MaxDraft }

\* String.prototype.trim(): leading and trailing white space removed.
RECURSIVE TrimStart(_)
TrimStart(s) ==
  IF s # <<>> /\ Head(s) = " " THEN TrimStart(Tail(s)) ELSE s

RECURSIVE TrimEnd(_)
TrimEnd(s) ==
  IF s # <<>> /\ s[Len(s)] = " " THEN TrimEnd(SubSeq(s, 1, Len(s) - 1)) ELSE s

Trim(s) == TrimEnd(TrimStart(s))

NoRequest ==
  [receiver_id |-> NULL, conversation_id |-> NULL, advertisement_id |-> NULL,
   content |-> <<>>]

\* useState: messages [], newMessage '', sending false.
SendIdle ==
  /\ shown = <<>>
  /\ draft = <<>>
  /\ sending = FALSE
  /\ pending = NoRequest

\* fetchMessages(conversationId): the ids of the conversation's messages in
\* the order they were stored.
FetchedMessages(msgs, cid) ==
  LET rows == SelectSeq(msgs, LAMBDA m : m.conversation_id = cid)
  IN [i \in 1..Len(rows) |-> rows[i].id]

\* useEffect([selectedConversation]): the displayed list is fetched again when
\* the selection has changed.
ShowSelected ==
  shown' = IF selected' # selected THEN FetchedMessages(messages', selected')
           ELSE shown

\* onChange of the input, which is disabled while sending.
TypeDraft ==
  \E d \in Drafts :
    /\ ~sending
    /\ d # draft
    /\ draft' = d
    /\ UNCHANGED <<msgVars, stepVars, shown, sending, pending, adVars,
                   adminVars>>

\* sendMessage() up to its await: the guards, setSending(true) and the insert
\* request; the button and the input are disabled while sending.
SendBegin ==
  /\ ~sending
  /\ selected # NULL
  /\ Trim(draft) # <<>>
  /\ selected \in cache
  /\ Len(messages) < MaxMsgs
  /\ LET conv == conversations[selected]
     IN pending' = [receiver_id |-> IF conv.user1_id = user THEN conv.user2_id
                                    ELSE conv.user1_id,
                    conversation_id |-> selected,
                    advertisement_id |-> conv.advertisement_id,
                    content |-> Trim(draft)]
  /\ sending' = TRUE
  /\ calls' = <<>>
  /\ UNCHANGED <<msgVars, stepVars, shown, draft, adVars, users, panel, logs,
                 profileWrites>>

\* (mutant) the catch block issuing the insert once more.
InsertsIssuedRetry(ok) == IF ok THEN 1 ELSE 2

\* The insert requests one sendMessage() issues: one, with no retry in catch.
InsertsIssued(ok) == 1

\* (mutant) setNewMessage('') placed outside the try block.
DraftClearedAlways(ok, d) == <<>>

\* setNewMessage('') runs only after `if (error) throw error`.
DraftAfter(ok, d) == IF ok THEN <<>> ELSE d

\* (mutant) setSending(false) at the end of the try block, without finally.
SendingWithoutFinally(ok) == ~ok

\* finally { setSending(false) }
SendingAfter(ok) == FALSE

\* sendMessage() from the answer of the insert on: on success the returned row
\* is appended to the displayed list, the draft is cleared and
\* fetchConversations() is started; on error the toast is shown.
SendEnd ==
  \E ok \in BOOLEAN, fetchOk \in BOOLEAN :
    /\ pending # NoRequest
    /\ IF ok
       THEN /\ InsertMessageWithin(MaxMsgs + 1, user, pending.receiver_id,
                                   pending.advertisement_id,
                                   pending.conversation_id)
            /\ shown' = Append(shown, nextId)
            /\ cache' = IF fetchOk
                        THEN FetchedConversations(conversations', user)
                        ELSE cache
       ELSE /\ ~fetchOk
            /\ UNCHANGED <<conversations, messages, nextId, cache, shown>>
    /\ calls' =
         [i \in 1..InsertsIssued(ok) |->
            Event("insert", "messages", user, pending.conversation_id, "", "",
                  ok)]
         \o (IF ok THEN <<>> ELSE <<ToastError>>)
    /\ draft' = DraftAfter(ok, draft)
    /\ sending' = SendingAfter(ok)
    /\ pending' = NoRequest
    /\ UNCHANGED <<user, selected, stepVars, adVars, users, panel, logs,
                   profileWrites>>

\* The modal is opened with a recipient for whom the local list holds no row.
OpenWithRecipient ==
  /\ StartNew
  /\ ShowSelected
  /\ UNCHANGED <<draft, sending, pending, adVars, adminVars>>

\* ------------------------------------------------------- specifications
MsgInit ==
  /\ conversations = <<>>
  /\ messages = <<>>
  /\ nextId = 1
  /\ user \in Users
  /\ cache = {}
  /\ selected = NULL
  /\ txns = {}
  /\ marking = NotMarking
  /\ SendIdle

MsgIdle ==
  /\ conversations = <<>>
  /\ messages = <<>>
  /\ nextId = 1
  /\ user = 1
  /\ cache = {}
  /\ selected = NULL
  /\ txns = {}
  /\ marking = NotMarking
  /\ SendIdle

Init == MsgInit /\ AdInit /\ AdminIdle
InitAds == MsgIdle /\ AdInit /\ AdminIdle
InitAdmin == MsgIdle /\ AdInit /\ AdminInit
InitPanel == MsgIdle /\ PanelAdInit /\ PanelInit
InitPolicies == MsgIdle /\ AdInit /\ AdminIdle

\* Every messaging handler runs alone, from start to end.
Next ==
  \/ OtherInsert /\ UNCHANGED <<sendVars, adVars, adminVars>>
  \/ FetchConversations /\ UNCHANGED <<sendVars, adVars, adminVars>>
  \/ SelectConversation /\ UNCHANGED <<sendVars, adVars, adminVars>>
  \/ StartExisting /\ UNCHANGED <<sendVars, adVars, adminVars>>
  \/ StartNew /\ UNCHANGED <<sendVars, adVars, adminVars>>
  \/ SendMessage /\ UNCHANGED <<sendVars, adVars, adminVars>>

\* Inserts and mark-read run statement by statement and interleave.
NextSteps ==
  \/ BeginInsert /\ UNCHANGED <<sendVars, adVars, adminVars>>
  \/ TriggerCreate /\ UNCHANGED <<sendVars, adVars, adminVars>>
  \/ TriggerMetadata /\ UNCHANGED <<sendVars, adVars, adminVars>>
  \/ StoreMessage /\ UNCHANGED <<sendVars, adVars, adminVars>>
  \/ FetchStep /\ UNCHANGED <<sendVars, adVars, adminVars>>
  \/ MarkReadFirst /\ UNCHANGED <<sendVars, adVars, adminVars>>
  \/ MarkReadSecond /\ UNCHANGED <<sendVars, adVars, adminVars>>

\* sendMessage while inserts of other sessions run statement by statement.
NextSend ==
  \/ BeginInsert /\ UNCHANGED <<sendVars, adVars, adminVars>>
  \/ TriggerCreate /\ UNCHANGED <<sendVars, adVars, adminVars>>
  \/ TriggerMetadata /\ UNCHANGED <<sendVars, adVars, adminVars>>
  \/ StoreMessage /\ UNCHANGED <<sendVars, adVars, adminVars>>
  \/ FetchStep /\ UNCHANGED <<sendVars, adVars, adminVars>>
  \/ MarkReadFirst /\ UNCHANGED <<sendVars, adVars, adminVars>>
  \/ MarkReadSecond /\ UNCHANGED <<sendVars, adVars, adminVars>>
  \/ SendAfterInserts /\ UNCHANGED <<sendVars, adVars, adminVars>>

\* sendMessage between its request and its answer, in an opened modal.
NextSending ==
  \/ OpenWithRecipient
  \/ TypeDraft
  \/ SendBegin
  \/ SendEnd

\* The write paths of the advertisements table.
NextAds ==
  \/ CreateAdvertisement /\ UNCHANGED <<sendVars, msgVars, stepVars, adminVars>>
  \/ InsertAdvertisement /\ UNCHANGED <<sendVars, msgVars, stepVars, adminVars>>
  \/ UpdateAdvertisement /\ UNCHANGED <<sendVars, msgVars, stepVars, adminVars>>

\* The admin panel's user actions and the writes the users policies permit.
NextAdmin ==
  \/ MountEffect /\ UNCHANGED <<sendVars, msgVars, stepVars, adVars>>
  \/ ClickRole /\ UNCHANGED <<sendVars, msgVars, stepVars, adVars>>
  \/ ClickBan /\ UNCHANGED <<sendVars, msgVars, stepVars, adVars>>
  \/ UpdateOwnProfile /\ UNCHANGED <<sendVars, msgVars, stepVars, adVars>>

\* The admin panel's actions, and the writes the policies on advertisements
\* and admin_logs permit.
NextPanel ==
  \/ MountEffect /\ UNCHANGED <<sendVars, msgVars, stepVars, adVars>>
  \/ ClickRole /\ UNCHANGED <<sendVars, msgVars, stepVars, adVars>>
  \/ ClickBan /\ UNCHANGED <<sendVars, msgVars, stepVars, adVars>>
  \/ ClickDeleteAd /\ UNCHANGED <<sendVars, msgVars, stepVars, nextAdId, adResult>>
  \/ ClickPromoteAd /\ UNCHANGED <<sendVars, msgVars, stepVars, nextAdId, adResult>>
  \/ DeleteAdvertisement /\ UNCHANGED <<sendVars, msgVars, stepVars, nextAdId, adResult>>
  \/ WriteLogs /\ UNCHANGED <<sendVars, msgVars, stepVars, adVars>>

\* The writes on messages the row-level policies decide.
NextPolicies ==
  \/ InsertMessageAs /\ UNCHANGED <<sendVars, adVars, users, panel, logs, profileWrites>>
  \/ UpdateMessageAs /\ UNCHANGED <<sendVars, adVars, users, panel, logs, profileWrites>>
  \/ DeleteMessageAs /\ UNCHANGED <<sendVars, adVars, users, panel, logs, profileWrites>>

vars == <<msgVars, stepVars, sendVars, adVars, adminVars>>

Spec == Init /\ [][Next]_vars
SpecSteps == Init /\ [][NextSteps]_vars
SpecSend == Init /\ [][NextSend]_vars
SpecAds == InitAds /\ [][NextAds]_vars
SpecAdmin == InitAdmin /\ [][NextAdmin]_vars
SpecPanel == InitPanel /\ [][NextPanel]_vars
SpecPolicies == InitPolicies /\ [][NextPolicies]_vars

\* The awaited insert settles: supabase-js resolves with data or with error.
SpecSending == Init /\ [][NextSending]_vars /\ WF_vars(SendEnd)
\* ------------------------------------------------------------ properties
\* The rows of `convs` for the unordered pair {a, b} scoped to advertisement x
\* (x = NULL: scoped to no advertisement).
RowsFor(convs, a, b, x) ==
  { c \in ConvIds(convs) :
      /\ {convs[c].user1_id, convs[c].user2_id} = {a, b}
      /\ convs[c].advertisement_id = x }

\* The unread counter of participant p of a conversation row.
UnreadOf(conv, p) ==
  IF conv.user1_id = p THEN conv.user1_unread_count
  ELSE conv.user2_unread_count

\* The stored messages of conversation c addressed to p that are not read.
UnreadMessages(msgs, c, p) ==
  { i \in DOMAIN msgs : /\ msgs[i].conversation_id = c
                        /\ msgs[i].receiver_id = p
                        /\ msgs[i].is_read = FALSE }

\* C1: with message inserts executed one at a time, every pair of users and
\* every advertisement (or none) that a stored message names has exactly one
\* conversation row, and no (pair, advertisement) has two rows.
C1_OneConversationPerPair ==
  /\ \A i \in DOMAIN messages :
       Cardinality(RowsFor(conversations, messages[i].sender_id,
                           messages[i].receiver_id,
                           messages[i].advertisement_id)) = 1
  /\ \A a \in Users, b \in Users, x \in AdOrNull :
       Cardinality(RowsFor(conversations, a, b, x)) <= 1

\* C1 witness: two messages between users 1 and 2, one in each direction, for
\* the same scope, share the single conversation row.
C1_Witness ==
  /\ Len(messages) = 2
  /\ messages[1].sender_id = 1 /\ messages[1].receiver_id = 2
  /\ messages[2].sender_id = 2 /\ messages[2].receiver_id = 1
  /\ messages[1].advertisement_id = NULL
  /\ messages[2].advertisement_id = NULL
  /\ messages[1].conversation_id = messages[2].conversation_id
  /\ Len(conversations) = 1

\* C2: with lookup and creation of concurrent inserts interleaving, no
\* reachable state holds two conversation rows for the same pair of two users
\* and the same advertisement, the NULL advertisement included.
C2_NoDuplicateRows ==
  \A a \in Users, b \in Users, x \in AdOrNull :
    a # b => Cardinality(RowsFor(conversations, a, b, x)) <= 1

\* C3: a step that stores one message from s to r (s # r) and runs nothing
\* else raises r's unread counter in the message's conversation by exactly one
\* and leaves s's counter as it was; when the conversation is new the counters
\* are 1 for r and 0 for s.
C3_OnlyReceiverCounted ==
  [][(Len(messages') = Len(messages) + 1 /\ selected' = selected) =>
       LET m == messages'[Len(messages')]
           c == m.conversation_id
       IN m.sender_id # m.receiver_id =>
            IF c \in ConvIds(conversations)
            THEN /\ UnreadOf(conversations'[c], m.receiver_id)
                      = UnreadOf(conversations[c], m.receiver_id) + 1
                 /\ UnreadOf(conversations'[c], m.sender_id)
                      = UnreadOf(conversations[c], m.sender_id)
            ELSE /\ UnreadOf(conversations'[c], m.receiver_id) = 1
                 /\ UnreadOf(conversations'[c], m.sender_id) = 0]_vars

\* C3 witness: two messages from 1 to 2 were inserted into one conversation:
\* user 2's counter is 2, user 1's is 0.
C3_Witness ==
  /\ Len(messages) = 2
  /\ \A i \in {1, 2} : messages[i].sender_id = 1 /\ messages[i].receiver_id = 2
  /\ messages[1].conversation_id = messages[2].conversation_id
  /\ conversations[messages[1].conversation_id].user2_unread_count = 2
  /\ conversations[messages[1].conversation_id].user1_unread_count = 0

\* C4: whenever no insert and no mark-read is in progress, each participant's
\* unread counter of every conversation (of two distinct users) equals the
\* number of unread stored messages of that conversation addressed to them.
C4_CounterIsUnreadCount ==
  (txns = {} /\ marking = NotMarking) =>
    \A c \in ConvIds(conversations) :
      conversations[c].user1_id # conversations[c].user2_id =>
        /\ conversations[c].user1_unread_count =
             Cardinality(UnreadMessages(messages, c, conversations[c].user1_id))
        /\ conversations[c].user2_unread_count =
             Cardinality(UnreadMessages(messages, c, conversations[c].user2_id))

\* C5: a step in which the selection changes, so that markMessagesAsRead runs
\* for the newly selected conversation (of two distinct users), ends with the
\* user's unread counter of that conversation at zero and every message of it
\* addressed to the user read, whatever the local conversation list holds.
C5_MarkReadResets ==
  [][(/\ selected' # selected
      /\ conversations'[selected'].user1_id # conversations'[selected'].user2_id)
       => /\ UnreadOf(conversations'[selected'], user) = 0
          /\ UnreadMessages(messages', selected', user) = {}]_vars

\* C6: every stored message references a conversation row whose pair is the
\* message's sender and receiver and whose advertisement is the message's.
C6_MessageAttached ==
  \A i \in DOMAIN messages :
    LET m == messages[i]
    IN /\ m.conversation_id # NULL
       /\ m.conversation_id \in ConvIds(conversations)
       /\ {conversations[m.conversation_id].user1_id,
           conversations[m.conversation_id].user2_id}
            = {m.sender_id, m.receiver_id}
       /\ conversations[m.conversation_id].advertisement_id = m.advertisement_id

\* C6 witness: the same two users hold a message scoped to no advertisement
\* and a message scoped to an advertisement, attached to different rows.
C6_Witness ==
  /\ Len(messages) = 2
  /\ {messages[1].sender_id, messages[1].receiver_id} = {1, 2}
  /\ {messages[2].sender_id, messages[2].receiver_id} = {1, 2}
  /\ messages[1].advertisement_id = NULL
  /\ messages[2].advertisement_id # NULL
  /\ messages[1].conversation_id # messages[2].conversation_id

\* C7: every conversation row has two distinct participants, and no step
\* raises both unread counters of a conversation.
C7_DistinctParticipants ==
  [][/\ \A c \in ConvIds(conversations') :
          conversations'[c].user1_id # conversations'[c].user2_id
     /\ \A c \in ConvIds(conversations) :
          ~(/\ conversations'[c].user1_unread_count
                 = conversations[c].user1_unread_count + 1
            /\ conversations'[c].user2_unread_count
                 = conversations[c].user2_unread_count + 1)]_vars

\* A contact argument that is empty: NULL or the empty string.
IsEmptyContact(x) == x = NullText \/ x = ""

\* C8: create_advertisement with both contacts empty (NULL or '') returns an
\* error and stores nothing; with exactly one non-empty contact it stores the
\* advertisement.
C8_EmptyContactsRejected ==
  [][\A d \in ContactValues, t \in ContactValues :
       (\E u \in Users, v \in BOOLEAN : CreateAdvertisementCall(u, d, t, v)) =>
         /\ (IsEmptyContact(d) /\ IsEmptyContact(t)) =>
              (adResult'.error /\ advertisements' = advertisements)
         /\ (IsEmptyContact(d) # IsEmptyContact(t)) =>
              (~adResult'.error /\ advertisements' # advertisements)]_vars

C10_AdminUntouched ==
  [][(ClickRole \/ ClickBan) =>
       \A t \in Users : users[t].role = "admin" => users'[t] = users[t]]_vars

\* The requests of the last client operation that match op and table.
CallsOf(cs, op, table) ==
  { i \in DOMAIN cs : cs[i].op = op /\ cs[i].table = table }

\* A step of one of the panel's mutating handlers.
HandlerStep == ClickRole \/ ClickBan \/ ClickDeleteAd \/ ClickPromoteAd

\* C11: every write that changes a user's role or ban flag is issued by a user
\* whose stored role is 'admin': an update of the own profile row changes
\* neither column unless its issuer is an administrator, and so for the
\* updates the panel issues.
C11_OnlyAdminsMutate ==
  [][/\ \A u \in Users : UpdateOwnProfileBy(u) => users[u].role = "admin"
     /\ (ClickRole \/ ClickBan) /\ users' # users
          => users[panel.id].role = "admin"]_vars

\* C12: the panel issues an update of the role column of users only in a
\* session whose user has the role 'admin'; a moderator's session issues none.
C12_RoleChangeByAdminOnly ==
  \A i \in CallsOf(calls, "update", "users") :
    calls[i].column = "role" => panel.role = "admin"

\* An admin's session has issued a role update for another user.
C12_Witness ==
  /\ panel.role = "admin"
  /\ \E i \in CallsOf(calls, "update", "users") :
       calls[i].column = "role" /\ calls[i].row # panel.id /\ calls[i].ok

\* C13: in a session whose user is not an admin the panel issues no select on
\* admin_logs and its local log list is empty, whatever the panel has done.
C13_LogsForAdminOnly ==
  panel.role # "admin" =>
    /\ panel.logs = <<>>
    /\ CallsOf(calls, "select", "admin_logs") = {}

\* A moderator's panel has fetched its data while admin_logs holds an entry.
C13_Witness ==
  /\ panel.role = "moderator"
  /\ logs # <<>>
  /\ panel.users # <<>>
  /\ \E i \in CallsOf(calls, "select", "users") : calls[i].ok

\* C14: when nobody is signed in or the session user's role is neither
\* 'moderator' nor 'admin', the mount effect only navigates away, the panel
\* holds no fetched users, advertisements or logs and issues no select, and
\* none of its handlers runs.
C14_OnlyPrivilegedEnter ==
  [][~(panel.id # NULL /\ panel.role \in {"moderator", "admin"}) =>
       /\ MountEffect => calls' = <<Navigate>>
       /\ panel'.users = <<>>
       /\ panel'.advertisements = {}
       /\ panel'.logs = <<>>
       /\ \A i \in DOMAIN calls' : calls'[i].op # "select"
       /\ ~HandlerStep]_vars

\* The panel of a user of role 'Legend' has navigated away.
C14_Witness ==
  /\ panel.role = "Legend"
  /\ calls = <<Navigate>>

\* The audit-log label that goes with a mutation request.
LabelOf(m) ==
  IF m.table = "users"
  THEN (IF m.column = "role" THEN "role_to_" \o m.value ELSE m.value)
  ELSE IF m.op = "delete" THEN "delete_advertisement"
  ELSE IF m.value = "true" THEN "promote_advertisement"
  ELSE "demote_advertisement"

\* The user a mutation request of the panel is about: the user of the row, or
\* the owner of the advertisement.
TargetOf(m) ==
  IF m.table = "users" THEN m.row ELSE StoredAd(m.row).user_id

\* The requests of a run of handleUserAction, handleDeleteAd or
\* handlePromoteAd: only these end in a toast.
HandlerRun(cs) ==
  \E j \in DOMAIN cs : cs[j] = ToastSuccess \/ cs[j] = ToastError

\* C15: in every run of handleUserAction, handleDeleteAd and handlePromoteAd
\* whose mutation call returns no error there is exactly one insert into
\* admin_logs, issued after the mutation call and before the success toast,
\* with the session user's id, the target user's id and the action label; in
\* a run whose mutation call returns an error there is none.
C15_LogAfterMutation ==
  HandlerRun(calls) =>
    LET m == calls[1]
        ins == CallsOf(calls, "insert", "admin_logs")
    IN /\ m.op \in {"update", "delete"}
       /\ m.table \in {"users", "advertisements"}
       /\ IF m.ok
          THEN \E i \in ins :
                 /\ ins = {i}
                 /\ i > 1
                 /\ \E j \in DOMAIN calls : calls[j] = ToastSuccess
                 /\ \A j \in DOMAIN calls : calls[j] = ToastSuccess => i < j
                 /\ calls[i].actor = panel.id
                 /\ calls[i].row = TargetOf(m)
                 /\ calls[i].value = LabelOf(m)
          ELSE ins = {}

\* A delete of an advertisement from the panel returned no error, was logged
\* and then reported.
C15_Witness ==
  /\ Len(calls) >= 3
  /\ calls[1].op = "delete" /\ calls[1].table = "advertisements"
  /\ calls[1].ok
  /\ calls[2].op = "insert" /\ calls[2].table = "admin_logs" /\ calls[2].ok
  /\ calls[3] = ToastSuccess
  /\ logs # <<>>

\* C16: in every step whose audit-log insert fails (only the panel's handlers
\* issue an insert that can fail), the tables are as the mutation alone leaves
\* them, nothing is added to admin_logs, the insert is issued once, success is
\* reported, no error is reported and the panel holds freshly fetched data.
C16_LogFailureIgnored ==
  [][LET m == calls'[1]
         ins == CallsOf(calls', "insert", "admin_logs")
       IN (\E i \in ins : ~calls'[i].ok) =>
            /\ Cardinality(ins) = 1
            /\ logs' = logs
            /\ users' =
                 IF m.table = "users"
                 THEN UpdateUsers(users, panel.id, m.row,
                        IF m.column = "role" THEN [role |-> m.value]
                        ELSE [is_banned |-> m.value = "ban"])
                 ELSE users
            /\ advertisements' =
                 IF m.table = "users" THEN advertisements
                 ELSE IF m.op = "delete"
                 THEN DeleteAdvertisements(advertisements, panel.id, m.row)
                 ELSE UpdateAdvertisementsVip(advertisements, panel.id, m.row,
                                              m.value = "true")
            /\ \E j \in DOMAIN calls' : calls'[j] = ToastSuccess
            /\ \A j \in DOMAIN calls' : calls'[j] # ToastError
            /\ \E j \in CallsOf(calls', "select", "users") :
                 panel' = FetchData(panel, users', advertisements', logs',
                                    calls'[j].ok)]_vars

\* The session user's own advertisement is deleted from the panel, the
\* audit-log insert fails, and success is reported.
C16_Witness ==
  /\ Len(calls) >= 3
  /\ calls[1].op = "delete" /\ calls[1].table = "advertisements"
  /\ calls[1].ok
  /\ \A row \in advertisements : row.id # calls[1].row
  /\ calls[2].op = "insert" /\ ~calls[2].ok
  /\ calls[3] = ToastSuccess
  /\ logs = <<>>

\* C17: every step leaves each stored admin_logs entry in place and unchanged:
\* the new table is the old one, possibly with entries appended.
C17_AppendOnly ==
  [][/\ Len(logs') >= Len(logs)
     /\ SubSeq(logs', 1, Len(logs)) = logs]_vars

\* A user has issued a delete or an update on an admin_logs row, which is
\* still stored.
C17_Witness ==
  /\ logs # <<>>
  /\ CallsOf(calls, "delete", "admin_logs")
       \cup CallsOf(calls, "update", "admin_logs") # {}

\* C18: a stored advertisement disappears only in a step that issues a delete
\* of it under the identity of its owner or of a user whose stored role is
\* 'moderator' or 'admin'; a delete issued under any other identity leaves the
\* advertisement stored.
C18_DeleteByOwnerOrPrivileged ==
  [][\A row \in advertisements :
       LET gone == \A r \in advertisements' : r.id # row.id
           dels == { i \in CallsOf(calls', "delete", "advertisements") :
                       calls'[i].row = row.id }
           entitled(a) == \/ a = row.user_id
                          \/ users[a].role \in {"moderator", "admin"}
       IN /\ gone => \E i \in dels : entitled(calls'[i].actor)
          /\ dels # {} /\ (\A i \in dels : ~entitled(calls'[i].actor))
               => ~gone]_vars

\* An advertisement has been removed by a delete its owner issued.
C18_Witness ==
  /\ Len(calls) >= 1
  /\ calls[1].op = "delete" /\ calls[1].table = "advertisements"
  /\ calls[1].actor = StoredAd(calls[1].row).user_id
  /\ \A row \in advertisements : row.id # calls[1].row

\* C19: in every state, also between the trigger's update of the conversation
\* and the storing of the message row, every non-null last_message_id names a
\* stored message.
C19_LastMessageStored == LastMessageFkey(conversations, messages)

\* C20: every conversation row has user1_id < user2_id, and the trigger
\* computes the same (user1, user2) for sender a, receiver b as for sender b,
\* receiver a.
C20_OrderedPair ==
  /\ \A c \in ConvIds(conversations) :
       conversations[c].user1_id < conversations[c].user2_id
  /\ \A a \in Users, b \in Users :
       <<TriggerUser1(a, b), TriggerUser2(a, b)>>
         = <<TriggerUser1(b, a), TriggerUser2(b, a)>>

\* The stored message of id m, as a set of rows (empty: not stored).
MessageOf(msgs, m) == { msgs[i] : i \in { j \in DOMAIN msgs : msgs[j].id = m } }

\* C21: a message is stored only by an insert its sender issues, the read flag
\* of a stored message changes only by an update its receiver issues, a stored
\* message changes or disappears only by a request of its sender or receiver,
\* and a select shows a caller only messages they sent or received.
C21_MessagePolicies ==
  [][/\ \A new \in { messages'[i] : i \in DOMAIN messages' } :
          MessageOf(messages, new.id) = {} =>
            \E e \in CallsOf(calls', "insert", "messages") :
              calls'[e].actor = new.sender_id
     /\ \A old \in { messages[i] : i \in DOMAIN messages } :
          /\ (\E new \in MessageOf(messages', old.id) :
                new.is_read # old.is_read)
               => \E e \in CallsOf(calls', "update", "messages") :
                    calls'[e].actor = old.receiver_id
          /\ MessageOf(messages', old.id) # {old}
               => \E e \in DOMAIN calls' :
                    calls'[e].actor \in {old.sender_id, old.receiver_id}
     /\ \A u \in Users : \A i \in SelectMessages(messages', u) :
          u \in {messages'[i].sender_id, messages'[i].receiver_id}]_vars

\* The sender of a stored message between two users has issued an update of
\* its read flag, and the message is still unread.
C21_Witness ==
  \E e \in CallsOf(calls, "update", "messages") :
    \E m \in MessageOf(messages, calls[e].row) :
      /\ m.sender_id # m.receiver_id
      /\ calls[e].actor = m.sender_id
      /\ calls[e].value = "true"
      /\ m.is_read = FALSE

\* C22: markMessagesAsRead for conversation C by participant P (the effect of
\* a changed selection, no message being sent in the same step) changes no
\* row of another conversation, in C nothing but the unread counter of P's
\* own slot, and no message other than those of C addressed to P.
C22_MarkReadFrame ==
  [][(selected' # selected /\ nextId' = nextId) =>
       LET C == selected'
           P == user
           before == conversations[C]
           after == conversations'[C]
       IN /\ Len(conversations') = Len(conversations)
          /\ Len(messages') = Len(messages)
          /\ \A c \in ConvIds(conversations) :
                c # C => conversations'[c] = conversations[c]
          /\ IF before.user1_id = P
             THEN after = [before EXCEPT
                             !.user1_unread_count = after.user1_unread_count]
             ELSE after = [before EXCEPT
                             !.user2_unread_count = after.user2_unread_count]
          /\ \A i \in DOMAIN messages :
                (messages[i].conversation_id # C \/ messages[i].receiver_id # P)
                  => messages'[i] = messages[i]]_vars

\* The selected conversation holds a message addressed to the user that has
\* been marked read, and an unread message addressed to the other participant
\* whose counter is still positive.
C22_Witness ==
  /\ selected # NULL
  /\ \E i \in DOMAIN messages, j \in DOMAIN messages :
       /\ messages[i].conversation_id = selected
       /\ messages[i].receiver_id = user
       /\ messages[i].is_read
       /\ messages[j].conversation_id = selected
       /\ messages[j].receiver_id # user
       /\ ~messages[j].is_read
  /\ LET conv == conversations[selected]
     IN IF conv.user1_id = user
        THEN conv.user1_unread_count = 0 /\ conv.user2_unread_count > 0
        ELSE conv.user2_unread_count = 0 /\ conv.user1_unread_count > 0

\* The stored conversations between users u and r.
StoredBetween(u, r) ==
  { c \in ConvIds(conversations) :
      \/ (conversations[c].user1_id = u /\ conversations[c].user2_id = r)
      \/ (conversations[c].user2_id = u /\ conversations[c].user1_id = r) }

\* C23: when the modal is opened with another user as recipient and a
\* conversation between the two is already stored, startConversation inserts
\* no message: the path that inserts the greeting is taken only when no
\* conversation between the two users is stored.
C23_NoGreetingWhenStored ==
  [][\A r \in Users \ {user}, a \in AdOrNull, fetchOk \in BOOLEAN :
       StartNewWith(r, a, fetchOk) => StoredBetween(user, r) = {}]_vars

\* C24: startConversation(R, X), R another user, ends with a selected
\* conversation whose pair is {user, R} and whose advertisement is X.
C24_SelectedScope ==
  [][\A r \in Users \ {user}, a \in AdOrNull :
       /\ (\E c \in ConvIds(conversations) : StartExistingWith(r, a, c))
            => /\ selected' \in StoredBetween(user, r)
               /\ conversations'[selected'].advertisement_id = a
       /\ (\E fetchOk \in BOOLEAN : StartNewWith(r, a, fetchOk))
            => /\ selected' \in { c \in ConvIds(conversations') :
                     \/ (conversations'[c].user1_id = user
                         /\ conversations'[c].user2_id = r)
                     \/ (conversations'[c].user2_id = user
                         /\ conversations'[c].user1_id = r) }
               /\ conversations'[selected'].advertisement_id = a]_vars

\* C25: a message sent by sendMessage while conversation C between the user
\* and another user is selected, no other insert being under way, is stored
\* attached to C, with the user as sender and C's other participant as
\* receiver.
C25_SentToSelected ==
  [][(/\ selected # NULL
      /\ conversations[selected].user1_id # conversations[selected].user2_id
      /\ SendAfterInserts) =>
       LET m == messages'[Len(messages')]
           conv == conversations[selected]
       IN /\ m.conversation_id = selected
          /\ m.sender_id = user
          /\ m.receiver_id = (IF conv.user1_id = user THEN conv.user2_id
                              ELSE conv.user1_id)]_vars

\* C26: when the insert issued by sendMessage fails, the displayed message
\* list and the typed draft are left unchanged, nothing is stored and the
\* insert is issued once; and whether the insert succeeds or fails, the
\* sending flag set at the start of the send eventually returns to false.
C26_FailedSendKeepsState ==
  /\ [][(pending # NoRequest /\ pending' = NoRequest) =>
          /\ ~sending'
          /\ (\E i \in CallsOf(calls', "insert", "messages") : ~calls'[i].ok)
               => /\ shown' = shown
                  /\ draft' = draft
                  /\ messages' = messages
                  /\ Cardinality(CallsOf(calls', "insert", "messages")) = 1]_vars
  /\ (sending ~> ~sending)

\* A send has failed: the toast is shown, the draft is still there, a message
\* is displayed and nothing is being sent.
C26_Witness ==
  /\ calls # <<>>
  /\ calls[Len(calls)] = ToastError
  /\ CallsOf(calls, "insert", "messages") # {}
  /\ ~sending
  /\ pending = NoRequest
  /\ Trim(draft) # <<>>
  /\ shown # <<>>

\* C27: whenever a handler of the panel appends an audit-log entry for a ban,
\* an unban, a role change, an advertisement deletion or a VIP promotion or
\* demotion and reports success, the stored state reflects that mutation: the
\* target user has the new role or ban flag, the advertisement is gone, or
\* its is_vip has the new value.
C27_LoggedMutationStored ==
  [][LET m == calls'[1]
         ins == CallsOf(calls', "insert", "admin_logs")
     IN (/\ HandlerStep
         /\ \E i \in ins : calls'[i].ok
         /\ \E j \in DOMAIN calls' : calls'[j] = ToastSuccess) =>
          IF m.table = "users"
          THEN IF m.column = "role"
               THEN users'[m.row].role = m.value
               ELSE users'[m.row].is_banned = (m.value = "ban")
          ELSE IF m.op = "delete"
          THEN \A ad \in advertisements' : ad.id # m.row
          ELSE \E ad \in advertisements' :
                 ad.id = m.row /\ ad.is_vip = (m.value = "true")]_vars

====
